---- MODULE Spec2Model ----
(***************************************************************************)
(* SuperNjagu Agent - the command dispatcher of src/main.py.               *)
(*                                                                         *)
(* Text is modelled as sequences of one-character strings, so that         *)
(* strip(), lower(), startswith(), split(' ', 1), " ".join() and slicing   *)
(* are computed character by character as Python computes them.            *)
(***************************************************************************)
EXTENDS Integers, Sequences, FiniteSets, TLC

\* ------------------------------------------------------------------ bounds
\* Number of input() calls one interactive session may make.
MaxReads == 2
\* How far past the display limit a collaborator's stdout may run.
MaxExtra == 1
\* Longest steps list an agent result carries.
MaxSteps == 2

\* ------------------------------------------------------- program constants
\* result['stdout'][:200]
OutputLimit == 200

\* ------------------------------------------------------------ text helpers
UpperChars == <<"A","B","C","D","E","F","G","H","I","J","K","L","M",
                "N","O","P","Q","R","S","T","U","V","W","X","Y","Z">>
LowerChars == <<"a","b","c","d","e","f","g","h","i","j","k","l","m",
                "n","o","p","q","r","s","t","u","v","w","x","y","z">>

\* Whitespace as str.strip() without arguments removes it: the whitespace
\* characters a line returned by input() holds here (space, tab, carriage return).
Whitespace == {" ", "\t", "\r"}

\* str.lower() on one character.
LowerChar(c) ==
    IF \E i \in 1..Len(UpperChars) : UpperChars[i] = c
    THEN LowerChars[CHOOSE i \in 1..Len(UpperChars) : UpperChars[i] = c]
    ELSE c

\* str.lower()
Lower(s) == [i \in 1..Len(s) |-> LowerChar(s[i])]

\* Index of the first non-whitespace character, Len(s)+1 when there is none.
FirstNonWs(s) ==
    IF \E i \in 1..Len(s) : s[i] \notin Whitespace
    THEN CHOOSE i \in 1..Len(s) :
            /\ s[i] \notin Whitespace
            /\ \A j \in 1..(i-1) : s[j] \in Whitespace
    ELSE Len(s) + 1

\* Index of the last non-whitespace character, 0 when there is none.
LastNonWs(s) ==
    IF \E i \in 1..Len(s) : s[i] \notin Whitespace
    THEN CHOOSE i \in 1..Len(s) :
            /\ s[i] \notin Whitespace
            /\ \A j \in (i+1)..Len(s) : s[j] \in Whitespace
    ELSE 0

\* str.strip()
Strip(s) == SubSeq(s, FirstNonWs(s), LastNonWs(s))

\* str.startswith(p)
StartsWith(s, p) == Len(s) >= Len(p) /\ SubSeq(s, 1, Len(p)) = p

\* Index of the first ' ' of s, 0 when s holds none.
FirstSpace(s) ==
    IF \E i \in 1..Len(s) : s[i] = " "
    THEN CHOOSE i \in 1..Len(s) : s[i] = " " /\ \A j \in 1..(i-1) : s[j] # " "
    ELSE 0

\* str.split(' ', 1): at most one split, at the first space.
Split1(s) ==
    IF FirstSpace(s) = 0 THEN <<s>>
    ELSE <<SubSeq(s, 1, FirstSpace(s) - 1), SubSeq(s, FirstSpace(s) + 1, Len(s))>>

RECURSIVE JoinNoSep(_)
JoinNoSep(parts) ==
    IF parts = <<>> THEN <<>> ELSE Head(parts) \o JoinNoSep(Tail(parts))

\* " ".join(parts)
RECURSIVE Join(_)
Join(parts) ==
    IF parts = <<>> THEN <<>>
    ELSE IF Len(parts) = 1 THEN Head(parts)
    ELSE Head(parts) \o <<" ">> \o Join(Tail(parts))

Digits == <<"0","1","2","3","4","5","6","7","8","9">>

\* str(n) for a natural number, as an f-string renders len(...).
RECURSIVE IntToStr(_)
IntToStr(n) ==
    IF n < 10 THEN <<Digits[n + 1]>>
    ELSE IntToStr(n \div 10) \o <<Digits[(n % 10) + 1]>>

\* str(b) for a boolean, as an f-string renders it.
BoolToStr(b) == IF b THEN <<"T","r","u","e">> ELSE <<"F","a","l","s","e">>

TruncateOnlyWhenLong(text) ==
    IF Len(text) > OutputLimit
    THEN SubSeq(text, 1, OutputLimit) \o <<".",".",".">>
    ELSE text

\* f"{result['stdout'][:200]}..."
TruncatedOutput(text) ==
    SubSeq(text, 1, IF Len(text) < OutputLimit THEN Len(text) ELSE OutputLimit)
        \o <<".",".",".">>

\* ------------------------------------------------------- program literals
KwExit   == <<"e","x","i","t">>
KwHelp   == <<"h","e","l","p">>
KwStatus == <<"s","t","a","t","u","s">>
PfxCreate == <<"c","r","e","a","t","e"," ">>
PfxRead   == <<"r","e","a","d"," ">>
PfxRun    == <<"r","u","n"," ">>

\* The fixed filename of the create command.
UserFile == <<"u","s","e","r","_","f","i","l","e",".","t","x","t">>

\* RuntimeError raised by asyncio.run() when an event loop is already running.
AsyncioRunError ==
    <<"a","s","y","n","c","i","o",".","r","u","n","(",")"," ","c","a","n","n","o","t"," ",
      "b","e"," ","c","a","l","l","e","d"," ","f","r","o","m"," ","a"," ",
      "r","u","n","n","i","n","g"," ","e","v","e","n","t"," ","l","o","o","p">>

\* EOFError raised by input() at end of input.
EofError ==
    <<"E","O","F"," ","w","h","e","n"," ","r","e","a","d","i","n","g"," ","a"," ",
      "l","i","n","e">>

\* ------------------------------------------------------------ classification
ClassifyPrefixFirst(u) ==
    LET lu == Lower(u)
    IN  IF u = <<>> THEN "blank"
        ELSE IF StartsWith(lu, KwExit) THEN "exit"
        ELSE IF StartsWith(lu, KwHelp) THEN "help"
        ELSE IF StartsWith(lu, KwStatus) THEN "status"
        ELSE IF StartsWith(lu, PfxCreate) THEN "create"
        ELSE IF StartsWith(lu, PfxRead) THEN "read"
        ELSE IF StartsWith(lu, PfxRun) THEN "run"
        ELSE "task"

\* The if/elif chain of interactive_mode, applied to the stripped line.
Classify(u) ==
    LET lu == Lower(u)
    IN  IF u = <<>> THEN "blank"
        ELSE IF lu = KwExit THEN "exit"
        ELSE IF lu = KwHelp THEN "help"
        ELSE IF lu = KwStatus THEN "status"
        ELSE IF StartsWith(lu, PfxCreate) THEN "create"
        ELSE IF StartsWith(lu, PfxRead) THEN "read"
        ELSE IF StartsWith(lu, PfxRun) THEN "run"
        ELSE "task"

\* user_input = input(...).strip()
UserInput(l) == Strip(l)

CreateArgsNamedByContent(u) == <<Split1(u)[2], Split1(u)[2]>>

\* self.file_ops.create_file("user_file.txt", content)
CreateArgs(u) == <<UserFile, Split1(u)[2]>>

ReadArgsLowered(u) == <<Split1(Lower(u))[2]>>

\* self.file_ops.read_file(filename)
ReadArgs(u) == <<Split1(u)[2]>>

\* self.cli_ops.execute_command(command)
RunArgs(u) == <<Split1(u)[2]>>

TaskOfArgsNoSep(args) == JoinNoSep(args)

\* task = " ".join(sys.argv[1:])
TaskOfArgs(args) == Join(args)

\* ------------------------------------------------------------------- inputs
\* Nothing but whitespace.
BlankLines ==
    { <<>>,
      <<"\t"," ">> }

\* The three keywords, in mixed case and padded.
KeywordLines ==
    { <<"e","x","i","t">>,
      <<"\t","E","x","i","T"," ">>,
      <<"h","e","l","p">>,
      <<"H","E","L","P"," ">>,
      <<"s","t","a","t","u","s">>,
      <<"\t","S","t","a","t","u","s">> }

\* create commands.
CreateLines ==
    { <<"c","r","e","a","t","e"," ","a">>,
      <<"\t","C","R","E","A","T","E"," ","A"," ","b"," ">>,
      <<"c","r","e","a","t","e"," "," ","a">> }

\* read commands.
ReadLines ==
    { <<"r","e","a","d"," ","a">>,
      <<"\t","R","e","a","d"," ","A"," ","b"," ">>,
      <<"r","e","a","d"," "," ","a">> }

\* run commands.
RunLines ==
    { <<"r","u","n"," ","a">>,
      <<"\t","R","U","N"," ","A"," "," ","b"," ">> }

\* Everything else: keywords with more text, bare command words, free text.
OtherLines ==
    { <<"e","x","i","t"," ","n","o","w">>,
      <<"h","e","l","p","s">>,
      <<"c","r","e","a","t","e">>,
      <<"c","r","e","a","t","e"," ">>,
      <<"c","r","e","a","t","e","\t","a">>,
      <<"r","e","a","d">>,
      <<"r","e","a","d","x"," ","a">>,
      <<"r","u","n">>,
      <<"g","o">>,
      <<"\t","G","o"," ","A"," ">> }

\* The lines input() may return (the terminating newline already removed).
Lines ==
    BlankLines \cup KeywordLines \cup CreateLines \cup ReadLines \cup RunLines
        \cup OtherLines

\* The branch interactive_mode takes for each line: strip, then classify.
Dispatch == [l \in Lines |-> Classify(UserInput(l))]

\* user_input for each line.
Stripped == [l \in Lines |-> UserInput(l)]

\* Argument vectors sys.argv[1:] of a non-interactive start.
ArgLists ==
    { <<<<"b","u","i","l","d">>, <<"a">>, <<"c","a","l","c">>>>,
      <<<<"g","o">>>>,
      <<<<"a"," ","b">>, <<>>>>,
      <<<<"e","x","i","t">>>>,
      <<<<"r","u","n">>, <<"l","s">>>> }

\* What a collaborator call may do: return, or raise.
Raises == {"Exception", "KeyboardInterrupt"}
Outcomes == {"ok"} \cup Raises

\* str(e) of a collaborator's exception.
CollabMsg == <<"b","o","o","m">>

\* TaskResult records the agent may return.
TaskResults ==
    { [status |-> st, steps |-> [i \in 1..n |-> <<"s">>], final_result |-> <<"r">>] :
        st \in {<<"o","k">>, <<"f","a","i","l">>}, n \in 0..MaxSteps }

\* AgentStatus mappings, as key/value pairs in mapping order.
AgentStatuses ==
    { <<>>, <<<<<<"k">>, <<"v">>>>>>, <<<<<<"k">>, <<"v">>>>, <<<<"j">>, <<"w">>>>>> }

\* Lengths of stdout a command may produce.
StdoutLens == {0, 1} \cup ((OutputLimit - 1)..(OutputLimit + MaxExtra))

\* A stdout text of the given length.
StdoutOf(n) == [i \in 1..n |-> Digits[(i % 10) + 1]]

\* --------------------------------------------------------------------- state
VARIABLES
    pc,           \* "start", "awaiting", "task_running", "stopped", "exited", "crashed"
    mode,         \* "none", "args", "interactive"
    loopRunning,  \* an asyncio event loop is running in this thread
    argv,         \* sys.argv[1:]
    line,         \* the line input() returned last
    user_input,   \* that line, stripped
    branch,       \* the branch of the if/elif chain taken last
    calls,        \* collaborator calls of the current iteration (or run)
    out,          \* what the current iteration (or run) has printed
    creates,      \* every create_file call of the session: <<name, content>>
    nread,        \* input() calls made
    eofReads,     \* input() calls that met the end of standard input
    caught,       \* what the except clauses of the current iteration caught
    cmdResult,    \* what execute_command returned in the current iteration
    agentResult,  \* what execute_autonomous returned in the current iteration (or run)
    retval,       \* what run_task returned in the current iteration (or run)
    raised        \* the exception that ended the process, "none" while there is none

vars == <<pc, mode, loopRunning, argv, line, user_input, branch, calls, out,
          creates, nread, eofReads, caught, cmdResult, agentResult, retval, raised>>

P(kind, text) == [kind |-> kind, text |-> text]
Call(fn, args) == [fn |-> fn, args |-> args]
NoResult == [status |-> <<>>, steps |-> <<>>, final_result |-> <<>>]
NoCmd == [success |-> FALSE, stdout |-> <<>>]

Init ==
    /\ pc = "start"
    /\ mode = "none"
    /\ loopRunning = FALSE
    /\ argv = <<>>
    /\ line = <<>>
    /\ user_input = <<>>
    /\ branch = "none"
    /\ calls = <<>>
    /\ out = <<>>
    /\ creates = <<>>
    /\ nread = 0
    /\ eofReads = 0
    /\ caught = "none"
    /\ cmdResult = NoCmd
    /\ agentResult = NoResult
    /\ retval = NoResult
    /\ raised = "none"

\* ------------------------------------------------------------ run_task
\* The four banner lines run_task prints before the agent is called.
Banner(task) == <<P("banner", task)>>

\* The summary run_task prints once the agent has returned.
Summary(result) ==
    <<P("task_status", result.status), P("steps_completed", IntToStr(Len(result.steps)))>>

\* return result
RunTaskReturn(result) == result

\* ------------------------------------------------------------ error handling
\* What the except clauses of interactive_mode print for an exception.
Handled(e, msg) ==
    IF e = "KeyboardInterrupt" THEN <<P("interrupted", <<>>)>> ELSE <<P("error", msg)>>

OnErrorInterruptEscapes(m, e) ==
    IF m = "interactive" /\ e \in {"Exception", "EOFError"} THEN "awaiting" ELSE "crashed"

OnErrorSwallowedEverywhere(m, e) ==
    IF m = "interactive" THEN "awaiting" ELSE "exited"

OnErrorEofBreaks(m, e) ==
    IF m = "interactive"
    THEN (IF e = "EOFError" THEN "stopped" ELSE "awaiting")
    ELSE "crashed"

\* Where control goes when exception e is raised in mode m: the try of the
\* interactive loop catches KeyboardInterrupt and every Exception (EOFError is
\* one) and loops; run_task and main() have no try, so the exception leaves
\* asyncio.run() and ends the process.
OnError(m, e) ==
    IF m = "interactive" /\ e \in {"KeyboardInterrupt", "Exception", "EOFError"}
    THEN "awaiting"
    ELSE "crashed"

\* Exception e with message msg is raised after `printed` was printed.
Raise(e, msg, printed) ==
    /\ pc' = OnError(mode, e)
    /\ caught' = IF OnError(mode, e) = "crashed" THEN "none" ELSE e
    /\ raised' = IF OnError(mode, e) = "crashed" THEN e ELSE "none"
    /\ out' = IF OnError(mode, e) = "crashed" THEN printed
              ELSE printed \o Handled(e, msg)

NextPcNoBreak(b) == "awaiting"

\* Where the loop goes after a branch that raised nothing: break after 'exit',
\* the next iteration of while True otherwise.
NextPc(b) == IF b = "exit" THEN "stopped" ELSE "awaiting"

\* ------------------------------------------------------------ entry points
\* asyncio.run(main()) with arguments: main() awaits run_task(task), which prints
\* the banner and suspends in execute_autonomous.
MainArgs ==
    /\ pc = "start"
    /\ \E args \in ArgLists :
        /\ argv' = args
        /\ out' = Banner(TaskOfArgs(args))
        /\ calls' = <<Call("execute_autonomous", <<TaskOfArgs(args)>>)>>
    /\ mode' = "args"
    /\ loopRunning' = TRUE
    /\ pc' = "task_running"
    /\ UNCHANGED <<line, user_input, branch, creates, nread, eofReads, caught,
                   cmdResult, agentResult, retval, raised>>

\* asyncio.run(main()) without arguments: main() calls interactive_mode() from
\* inside the running event loop.
MainNoArgs ==
    /\ pc = "start"
    /\ mode' = "interactive"
    /\ loopRunning' = TRUE
    /\ out' = <<P("header", <<>>)>>
    /\ pc' = "awaiting"
    /\ UNCHANGED <<argv, line, user_input, branch, calls, creates, nread, eofReads,
                   caught, cmdResult, agentResult, retval, raised>>

\* SuperNjaguMain().interactive_mode() called from synchronous code, no event
\* loop running.
InteractiveDirect ==
    /\ pc = "start"
    /\ mode' = "interactive"
    /\ loopRunning' = FALSE
    /\ out' = <<P("header", <<>>)>>
    /\ pc' = "awaiting"
    /\ UNCHANGED <<argv, line, user_input, branch, calls, creates, nread, eofReads,
                   caught, cmdResult, agentResult, retval, raised>>

\* ------------------------------------------------- one iteration of the loop
\* input() returns the line l; it is stripped and the branch b of the if/elif
\* chain is taken. The results of the previous iteration are dropped.
Read(l, b) ==
    /\ pc = "awaiting"
    /\ nread < MaxReads
    /\ eofReads = 0
    /\ Dispatch[l] = b
    /\ nread' = nread + 1
    /\ line' = l
    /\ user_input' = Stripped[l]
    /\ branch' = b
    /\ UNCHANGED <<mode, loopRunning, argv, eofReads>>

\* A branch that raised nothing and called neither the agent nor cli-ops.
Plain(b) ==
    /\ pc' = NextPc(b)
    /\ caught' = "none"
    /\ UNCHANGED <<cmdResult, agentResult, retval, raised>>

\* input() is interrupted: except KeyboardInterrupt.
InputInterrupt ==
    /\ pc = "awaiting"
    /\ nread < MaxReads
    /\ nread' = nread + 1
    /\ branch' = "none"
    /\ calls' = <<>>
    /\ Raise("KeyboardInterrupt", <<>>, <<>>)
    /\ UNCHANGED <<mode, loopRunning, argv, line, user_input, creates, eofReads,
                   cmdResult, agentResult, retval>>

\* input() meets the end of standard input: EOFError, caught by except Exception.
\* Every later read meets it again.
InputEof ==
    /\ pc = "awaiting"
    /\ nread < MaxReads
    /\ nread' = nread + 1
    /\ eofReads' = eofReads + 1
    /\ branch' = "none"
    /\ calls' = <<>>
    /\ Raise("EOFError", EofError, <<>>)
    /\ UNCHANGED <<mode, loopRunning, argv, line, user_input, creates,
                   cmdResult, agentResult, retval>>

\* if not user_input: continue
DoBlank ==
    /\ \E l \in Lines : Read(l, "blank")
    /\ calls' = <<>>
    /\ out' = <<>>
    /\ Plain("blank")
    /\ UNCHANGED creates

\* 'exit': print the farewell and break.
DoExit ==
    /\ \E l \in Lines : Read(l, "exit")
    /\ calls' = <<>>
    /\ out' = <<P("farewell", <<>>)>>
    /\ Plain("exit")
    /\ UNCHANGED creates

\* 'help': self._show_help()
DoHelp ==
    /\ \E l \in Lines : Read(l, "help")
    /\ calls' = <<>>
    /\ out' = <<P("help", <<>>)>>
    /\ Plain("help")
    /\ UNCHANGED creates

\* 'status': self.get_status(), then one line per key of the mapping.
DoStatus ==
    /\ \E l \in Lines : Read(l, "status")
    /\ calls' = <<Call("get_status", <<>>)>>
    /\ \/ \E st \in AgentStatuses :
            /\ out' = <<P("status_header", <<>>)>>
                        \o [i \in 1..Len(st) |->
                              P("status_item", st[i][1] \o <<":"," ">> \o st[i][2])]
            /\ Plain("status")
       \/ \E e \in Raises :
            /\ Raise(e, CollabMsg, <<>>)
            /\ UNCHANGED <<cmdResult, agentResult, retval>>
    /\ UNCHANGED creates

\* 'create <content>': create_file("user_file.txt", content), print its result.
DoCreate ==
    /\ \E l \in Lines : Read(l, "create")
    /\ calls' = <<Call("create_file", CreateArgs(user_input'))>>
    /\ creates' = Append(creates, CreateArgs(user_input'))
    /\ \/ /\ out' = <<P("create_result", <<"o","k">>)>>
          /\ Plain("create")
       \/ \E e \in Raises :
            /\ Raise(e, CollabMsg, <<>>)
            /\ UNCHANGED <<cmdResult, agentResult, retval>>

\* 'read <filename>': read_file(filename), print its result.
DoRead ==
    /\ \E l \in Lines : Read(l, "read")
    /\ calls' = <<Call("read_file", ReadArgs(user_input'))>>
    /\ \/ /\ out' = <<P("read_result", <<"d","a","t","a">>)>>
          /\ Plain("read")
       \/ \E e \in Raises :
            /\ Raise(e, CollabMsg, <<>>)
            /\ UNCHANGED <<cmdResult, agentResult, retval>>
    /\ UNCHANGED creates

\* 'run <command>': execute_command(command), print the success flag and, when
\* stdout is truthy, its first 200 characters followed by "...".
DoRun ==
    /\ \E l \in Lines : Read(l, "run")
    /\ calls' = <<Call("execute_command", RunArgs(user_input'))>>
    /\ \/ \E ok \in BOOLEAN, n \in StdoutLens :
            /\ cmdResult' = [success |-> ok, stdout |-> StdoutOf(n)]
            /\ out' = <<P("command_result", <<>>), P("success", BoolToStr(ok))>>
                        \o (IF StdoutOf(n) # <<>>
                            THEN <<P("output", TruncatedOutput(StdoutOf(n)))>>
                            ELSE <<>>)
            /\ pc' = NextPc("run")
            /\ caught' = "none"
            /\ UNCHANGED <<agentResult, retval, raised>>
       \/ \E e \in Raises :
            /\ Raise(e, CollabMsg, <<>>)
            /\ UNCHANGED <<cmdResult, agentResult, retval>>
    /\ UNCHANGED creates

\* Free-form task while an event loop is running (the loop was entered from
\* main()): self.run_task(user_input) only creates the coroutine, asyncio.run()
\* refuses to start and raises RuntimeError, which except Exception catches. The
\* body of run_task never runs.
DoTaskNested ==
    /\ loopRunning
    /\ \E l \in Lines : Read(l, "task")
    /\ calls' = <<>>
    /\ Raise("Exception", AsyncioRunError, <<>>)
    /\ UNCHANGED <<creates, cmdResult, agentResult, retval>>

\* Free-form task with no event loop running: asyncio.run() drives run_task,
\* which prints the banner and suspends in execute_autonomous.
DoTaskRun ==
    /\ ~loopRunning
    /\ \E l \in Lines : Read(l, "task")
    /\ calls' = <<Call("execute_autonomous", <<user_input'>>)>>
    /\ out' = Banner(user_input')
    /\ caught' = "none"
    /\ pc' = "task_running"
    /\ UNCHANGED <<creates, cmdResult, agentResult, retval, raised>>

\* execute_autonomous returns: run_task prints the summary and returns the
\* result; the interactive loop then prints final_result and reads again, main()
\* returns and the process exits.
AgentReturn ==
    /\ pc = "task_running"
    /\ \E r \in TaskResults :
        /\ agentResult' = r
        /\ retval' = RunTaskReturn(r)
        /\ out' = out \o Summary(r)
                    \o (IF mode = "interactive"
                        THEN <<P("final_result", RunTaskReturn(r).final_result)>>
                        ELSE <<>>)
    /\ pc' = IF mode = "interactive" THEN NextPc(branch) ELSE "exited"
    /\ UNCHANGED <<mode, loopRunning, argv, line, user_input, branch, calls,
                   creates, nread, eofReads, caught, cmdResult, raised>>

\* execute_autonomous raises. In the interactive loop the except clauses catch
\* it; in run_task and main() nothing does, and asyncio.run() re-raises it.
AgentRaise ==
    /\ pc = "task_running"
    /\ \E e \in Raises : Raise(e, CollabMsg, out)
    /\ UNCHANGED <<mode, loopRunning, argv, line, user_input, branch, calls,
                   creates, nread, eofReads, cmdResult, agentResult, retval>>

Next ==
    \/ MainArgs
    \/ MainNoArgs
    \/ InteractiveDirect
    \/ InputInterrupt
    \/ InputEof
    \/ DoBlank
    \/ DoExit
    \/ DoHelp
    \/ DoStatus
    \/ DoCreate
    \/ DoRead
    \/ DoRun
    \/ DoTaskNested
    \/ DoTaskRun
    \/ AgentReturn
    \/ AgentRaise

Spec == Init /\ [][Next]_vars

\* ===================================================================
\* Properties. The text notions below are stated on their own terms
\* (by what the result is), not by the operators that compute them above.
\* ===================================================================

\* The text consists of whitespace only (or is empty).
IsBlankText(l) == \A i \in 1..Len(l) : l[i] \in Whitespace

\* The text without its surrounding whitespace: the part between the first and
\* the last character that is not whitespace.
CoreOf(l) ==
    IF IsBlankText(l) THEN <<>>
    ELSE LET p == CHOOSE q \in (1..Len(l)) \X (1..Len(l)) :
                    /\ q[1] <= q[2]
                    /\ l[q[1]] \notin Whitespace
                    /\ l[q[2]] \notin Whitespace
                    /\ \A k \in 1..Len(l) : (k < q[1] \/ k > q[2]) => l[k] \in Whitespace
         IN  [k \in 1..(p[2] - p[1] + 1) |-> l[p[1] + k - 1]]

\* Two characters are the same letter, whatever their case.
SameLetter(a, b) ==
    \/ a = b
    \/ \E k \in 1..Len(UpperChars) :
          {a, b} = {UpperChars[k], LowerChars[k]}

\* The text equals the keyword, letter case ignored.
SameIgnoringCase(s, kw) ==
    Len(s) = Len(kw) /\ \A i \in 1..Len(kw) : SameLetter(s[i], kw[i])

\* The text begins with the keyword, letter case ignored.
BeginsIgnoringCase(s, kw) ==
    Len(s) >= Len(kw) /\ \A i \in 1..Len(kw) : SameLetter(s[i], kw[i])

\* Everything after the first space of s: the r with s = w + ' ' + r for a word
\* w holding no space. Meaningful only when s holds a space.
RestAfterFirstSpace(s) ==
    CHOOSE r \in {SubSeq(s, k, Len(s)) : k \in 1..(Len(s) + 1)} :
        \E k \in 1..Len(s) :
            /\ \A j \in 1..(k - 1) : s[j] # " "
            /\ s = SubSeq(s, 1, k - 1) \o <<" ">> \o r

\* The parts, each but the first preceded by one space.
RECURSIVE JoinLeft(_, _)
JoinLeft(parts, n) ==
    IF n = 0 THEN <<>>
    ELSE IF n = 1 THEN parts[1]
    ELSE JoinLeft(parts, n - 1) \o <<" ">> \o parts[n]

\* The kinds of the lines printed, in order.
Kinds(o) == [i \in 1..Len(o) |-> o[i].kind]

\* The branch the rules of the command grammar give a line, first match first.
ExpectedBranch(l) ==
    LET c == CoreOf(l)
    IN  CASE IsBlankText(l) -> "blank"
          [] ~IsBlankText(l) /\ SameIgnoringCase(c, <<"e","x","i","t">>) -> "exit"
          [] SameIgnoringCase(c, <<"h","e","l","p">>) -> "help"
          [] SameIgnoringCase(c, <<"s","t","a","t","u","s">>) -> "status"
          [] BeginsIgnoringCase(c, <<"c","r","e","a","t","e"," ">>) -> "create"
          [] BeginsIgnoringCase(c, <<"r","e","a","d"," ">>) -> "read"
          [] BeginsIgnoringCase(c, <<"r","u","n"," ">>) -> "run"
          [] OTHER -> "task"

\* None of the three keywords and none of the three prefixes.
IsFreeForm(l) ==
    LET c == CoreOf(l)
    IN  /\ ~IsBlankText(l)
        /\ \A kw \in {<<"e","x","i","t">>, <<"h","e","l","p">>,
                      <<"s","t","a","t","u","s">>} : ~SameIgnoringCase(c, kw)
        /\ \A pf \in {<<"c","r","e","a","t","e"," ">>, <<"r","e","a","d"," ">>,
                      <<"r","u","n"," ">>} : ~BeginsIgnoringCase(c, pf)

\* C1 (as claimed): in the interactive mode main() starts, a free-form line
\* makes exactly one execute_autonomous call with the stripped line, and once
\* the loop awaits input again the final_result of that call has been printed.
C1_MainFreeFormRunsAgent ==
    (mode = "interactive" /\ loopRunning /\ branch = "task" /\ pc = "awaiting")
        => /\ calls = <<Call("execute_autonomous", <<CoreOf(line)>>)>>
           /\ \E i \in 1..Len(out) : out[i].kind = "final_result"

\* C2: the branch taken is the one the ordered rules give the line (blank,
\* exit, help, status, create, read, run, else task; case ignored, after
\* stripping); a blank line calls nothing and prints nothing; every line that
\* is none of the keywords and has none of the prefixes is a free-form task.
C2_Classification ==
    (mode = "interactive" /\ branch # "none")
        => /\ branch \in {"blank", "exit", "help", "status", "create", "read",
                          "run", "task"}
           /\ branch = ExpectedBranch(line)
           /\ IsBlankText(line) => (calls = <<>> /\ out = <<>>)
           /\ IsFreeForm(line) => branch = "task"
           /\ branch = "task" =>
                \/ loopRunning
                \/ calls = <<Call("execute_autonomous", <<CoreOf(line)>>)>>

\* A bare 'create' was read and went to the free-form branch.
C2_Witness ==
    /\ branch = "task"
    /\ CoreOf(line) = <<"c","r","e","a","t","e">>
    /\ line # CoreOf(line)

\* C3: every create_file call of the session names 'user_file.txt', so all of
\* them target one file; the content is everything after the first space of
\* the (stripped) line, case and inner spaces kept.
C3_CreateFixedFile ==
    /\ \A i \in 1..Len(creates) :
          creates[i][1] = <<"u","s","e","r","_","f","i","l","e",".","t","x","t">>
    /\ Cardinality({creates[i][1] : i \in 1..Len(creates)}) <= 1
    /\ branch = "create" =>
          /\ calls = <<Call("create_file",
                            <<<<"u","s","e","r","_","f","i","l","e",".","t","x","t">>,
                              RestAfterFirstSpace(CoreOf(line))>>)>>
          /\ creates # <<>>
          /\ creates[Len(creates)] = calls[1].args

\* Two create commands with different content were run, one after the other.
C3_Witness ==
    /\ Len(creates) = 2
    /\ creates[1][2] # creates[2][2]
    /\ creates[2][2] = <<"A"," ","b">>

\* C4: started with arguments, the loop is never entered; the agent is called
\* once, with the arguments joined by single spaces; the banner is out while
\* the call is in flight and the status and step-count summary follow its
\* return; run_task returns what the agent returned.
C4_ArgsRunOnce ==
    mode = "args" =>
        /\ nread = 0 /\ branch = "none" /\ line = <<>>
        /\ argv # <<>>
        /\ calls = <<Call("execute_autonomous", <<JoinLeft(argv, Len(argv))>>)>>
        /\ argv = <<<<"b","u","i","l","d">>, <<"a">>, <<"c","a","l","c">>>>
              => calls[1].args[1] = <<"b","u","i","l","d"," ","a"," ","c","a","l","c">>
        /\ out # <<>> /\ out[1] = P("banner", JoinLeft(argv, Len(argv)))
        /\ pc = "task_running" => Kinds(out) = <<"banner">>
        /\ pc = "exited" =>
              /\ agentResult \in TaskResults
              /\ Kinds(out) = <<"banner", "task_status", "steps_completed">>
              /\ out[2].text = agentResult.status
              /\ out[3].text = <<Digits[Len(agentResult.steps) + 1]>>
              /\ retval = agentResult

\* A three-argument run has finished.
C4_Witness ==
    /\ mode = "args"
    /\ pc = "exited"
    /\ Len(argv) = 3
    /\ Len(agentResult.steps) = 2

\* C5: in the interactive loop an interrupt or error raised by the read or by
\* the dispatch is caught in that iteration, a message is printed last, the
\* loop awaits input again and the next line can be read; the process never
\* ends with an exception.
C5_LoopSurvivesErrors ==
    mode = "interactive" =>
        /\ pc \in {"awaiting", "task_running", "stopped"}
        /\ raised = "none"
        /\ caught # "none" =>
              /\ pc = "awaiting"
              /\ out # <<>>
              /\ out[Len(out)].kind = (IF caught = "KeyboardInterrupt"
                                       THEN "interrupted" ELSE "error")
        /\ (caught # "none" /\ nread < MaxReads /\ eofReads = 0) => ENABLED DoHelp

\* get_status raised during 'status' and the error was caught.
C5_Witness ==
    /\ mode = "interactive"
    /\ branch = "status"
    /\ calls = <<Call("get_status", <<>>)>>
    /\ caught = "Exception"
    /\ pc = "awaiting"

\* C6: with arguments, an error of execute_autonomous is caught nowhere: the
\* process ends with it and nothing follows the banner; the summary is printed
\* only when the agent returned. The interactive loop never ends that way.
C6_ArgsErrorPropagates ==
    /\ (mode = "args" /\ pc # "task_running") =>
          IF agentResult = NoResult
          THEN /\ pc = "crashed"
               /\ raised \in Raises
               /\ caught = "none"
               /\ Kinds(out) = <<"banner">>
               /\ retval = NoResult
          ELSE /\ pc = "exited"
               /\ raised = "none"
    /\ mode = "interactive" => (pc # "crashed" /\ raised = "none")
    /\ (mode = "interactive" /\ branch = "task" /\ caught # "none")
          => (pc = "awaiting" /\ out[Len(out)].kind \in {"error", "interrupted"})

\* The agent raised in argument mode and the process ended with the error.
C6_Witness ==
    /\ mode = "args"
    /\ pc = "crashed"
    /\ raised = "Exception"

\* C7, the states: the loop is awaiting input (or inside a branch that awaits
\* the agent) or stopped; it is stopped exactly when the line read last was
\* 'exit' (stripped, case ignored), which printed the farewell and called
\* nothing.
C7_States ==
    mode = "interactive" =>
        /\ pc \in {"awaiting", "task_running", "stopped"}
        /\ (pc = "stopped") <=> (branch = "exit")
        /\ branch = "exit" =>
              /\ SameIgnoringCase(CoreOf(line), <<"e","x","i","t">>)
              /\ Kinds(out) = <<"farewell">>
              /\ calls = <<>>
        /\ pc = "task_running" => branch = "task"

\* C7, the steps: the loop stops only in a step that reads a line, and once
\* stopped nothing is read, called or printed any more.
C7_Steps ==
    /\ (pc # "stopped" /\ pc' = "stopped") => (pc = "awaiting" /\ nread' = nread + 1)
    /\ pc = "stopped" => (nread' = nread /\ calls' = calls /\ out' = out /\ pc' = pc)

\* C7: one non-terminal state, one terminal state, 'exit' the only way between.
C7_LoopStateMachine == []C7_States /\ [][C7_Steps]_vars

\* The loop stopped on 'exit' after an earlier command had returned to it.
C7_Witness ==
    /\ pc = "stopped"
    /\ nread = 2
    /\ line # CoreOf(line)

\* C8: a run line calls execute_command once with everything after the first
\* space of the (stripped) line; when the call returns the success flag is
\* printed, and an output line is printed exactly when stdout is not empty: its
\* first 200 characters (all of it when shorter) followed by '...'.
C8_RunReport ==
    branch = "run" =>
        /\ calls = <<Call("execute_command", <<RestAfterFirstSpace(CoreOf(line))>>)>>
        /\ caught = "none" =>
              LET so == cmdResult.stdout
                  n  == IF Len(so) <= 200 THEN Len(so) ELSE 200
                  os == {i \in 1..Len(out) : out[i].kind = "output"}
              IN  /\ Len(out) >= 2
                  /\ out[2] = P("success", IF cmdResult.success
                                           THEN <<"T","r","u","e">>
                                           ELSE <<"F","a","l","s","e">>)
                  /\ (os # {}) <=> (so # <<>>)
                  /\ Cardinality(os) <= 1
                  /\ \A i \in os :
                        /\ Len(out[i].text) = n + 3
                        /\ \A k \in 1..n : out[i].text[k] = so[k]
                        /\ \A k \in (n + 1)..(n + 3) : out[i].text[k] = "."

\* A command returned one character of stdout and an output line was printed.
C8_Witness ==
    /\ branch = "run"
    /\ caught = "none"
    /\ Len(cmdResult.stdout) = 1
    /\ \E i \in 1..Len(out) : out[i].kind = "output" /\ Len(out[i].text) = 4

\* C9 (as claimed): read_file gets the remainder of the typed line after its
\* first space, unmodified.
C9_TypedRemainderPassed ==
    branch = "read" =>
        calls = <<Call("read_file", <<RestAfterFirstSpace(line)>>)>>

\* C9 (amended): read_file is called once, with the remainder after the first
\* space of the typed line stripped of its surrounding whitespace; case and the
\* spaces inside the remainder are kept.
C9_StrippedRemainderPassed ==
    branch = "read" =>
        calls = <<Call("read_file", <<RestAfterFirstSpace(CoreOf(line))>>)>>

\* A read line typed with surrounding whitespace passed a filename with an
\* upper-case letter and a space inside.
C9_Witness ==
    /\ branch = "read"
    /\ line # CoreOf(line)
    /\ calls = <<Call("read_file", <<<<"A"," ","b">>>>)>>

\* C10: once the input is exhausted every read is caught and the loop reads
\* again: it is never stopped, no collaborator is called; the loop is stopped
\* only after an 'exit' line, which needs the input not to be exhausted.
C10_EofNeverStops ==
    /\ eofReads > 0 =>
          /\ pc = "awaiting"
          /\ calls = <<>>
          /\ branch = "none"
          /\ caught \in {"EOFError", "KeyboardInterrupt"}
          /\ caught = "EOFError" => out = <<P("error", EofError)>>
          /\ nread < MaxReads => ENABLED InputEof
    /\ pc = "stopped" =>
          /\ eofReads = 0
          /\ SameIgnoringCase(CoreOf(line), <<"e","x","i","t">>)

\* Two reads in a row met the end of input.
C10_Witness ==
    /\ eofReads = 2
    /\ nread = 2
    /\ pc = "awaiting"

====
